---- MODULE Spec2Model ----
(***************************************************************************)
(* Model of the player / camera rig of src/src/player.rs (PlayerPlugin):   *)
(* the ActivePlayer resource kept by the Player component hooks, and the   *)
(* per-frame systems pan_player, zoom_camera and fit_window.               *)
(*                                                                         *)
(* Numbers.  Time is counted in ticks of 1/TicksPerSec seconds, a          *)
(* translation is kept in the player's own (forward, right) basis in units *)
(* of 1/TicksPerSec, and an orthographic scale is an exact fraction        *)
(* <<numerator, denominator>> (denominator 0 is the f32 value +inf that    *)
(* 1./0. produces).  f32 rounding error is not modelled.                   *)
(***************************************************************************)
EXTENDS Integers, Sequences, FiniteSets, TLC

\* ---------------------------------------------------------------- bounds
MaxEntities == 8
TicksPerSec == 2
MaxDelta == 2
MaxElapsed == 2
MaxEvents == 2
MaxWindowHalves == 3

\* ------------------------------------------------------ program constants
world_render_width == 320
world_render_height == 180
zoom_speed == 1
pan_speed == 2

\* ------------------------------------------------------------ the world
VARIABLES
    live,            \* entities that exist
    next_id,         \* next entity id to allocate (ids are never reused)
    player,          \* entities carrying the Player component
    camera3d,        \* entities carrying Camera3d
    screen_camera,   \* entities carrying ScreenCamera
    child_of,        \* ChildOf relation: parent of each entity, or None
    transform,       \* Transform.translation, in the (forward, right) basis
    projection,      \* Projection component: kind and orthographic scale
    active_player,   \* the ActivePlayer resource
    log,             \* the last line a Player hook logged
    action_state,    \* ActionState<PlayerAction>: Pan axis pair, Zoom value
    time,            \* the Time resource: delta and elapsed, in ticks
    resize_events,   \* WindowResized events not yet read by fit_window
    pending,         \* Update systems that have not run yet in this frame
    started,         \* the Startup schedule has run
    panicked         \* a system hit unreachable!()

vars == <<live, next_id, player, camera3d, screen_camera, child_of, transform,
          projection, active_player, log, action_state, time, resize_events,
          pending, started, panicked>>

Entities == 1..MaxEntities
\* Option<Entity>::None
None == 0

UpdateSystems == {"pan_player", "zoom_camera", "fit_window"}

\* ------------------------------------------------------------- fractions
RECURSIVE GCD(_, _)
GCD(a, b) == IF b = 0 THEN a ELSE GCD(b, a % b)

Abs(n) == IF n < 0 THEN -n ELSE n

\* n/d in lowest terms with a positive denominator; x/0 is +inf or -inf.
RatNorm(n, d) ==
    IF d = 0 THEN <<IF n < 0 THEN -1 ELSE 1, 0>>
    ELSE IF n = 0 THEN <<0, 1>>
    ELSE LET g == GCD(Abs(n), Abs(d))
             s == IF d < 0 THEN -1 ELSE 1
         IN  <<(s * n) \div g, (s * d) \div g>>

RatMul(a, b) == RatNorm(a[1] * b[1], a[2] * b[2])

\* f32::min of two non-negative quotients
RatMin(a, b) == IF a[1] * b[2] <= b[1] * a[2] THEN a ELSE b

\* f32::round of a non-negative quotient: to nearest, halves away from zero
RatRound(a) == (2 * a[1] + a[2]) \div (2 * a[2])

\* ------------------------------------------------------------ components
NoProjection == [kind |-> "None", scale |-> <<0, 1>>]

\* Camera2d's required Projection: orthographic, scale 1
ScreenCameraProjection == [kind |-> "Orthographic", scale |-> <<1, 1>>]

\* Mutant: the world camera is left with Camera3d's required Projection.
WorldCameraProjection_default == [kind |-> "Perspective", scale |-> <<1, 1>>]

\* The Projection spawn_player gives the world camera
WorldCameraProjection == [kind |-> "Orthographic", scale |-> <<1, 1>>]

LogNone == "none"
LogSet == "active_player set"
LogMoreThanOne == "more than one player exists in the world!"
LogCleared == "player removed"
LogNoActive == "tried to remove a player from the world, but no active player exists!"

\* ------------------------------------------------------------------ Init
Init ==
    /\ live = {}
    /\ next_id = 1
    /\ player = {}
    /\ camera3d = {}
    /\ screen_camera = {}
    /\ child_of = [e \in Entities |-> None]
    /\ transform = [e \in Entities |-> <<0, 0>>]
    /\ projection = [e \in Entities |-> NoProjection]
    /\ active_player = [player_id |-> None]
    /\ log = LogNone
    /\ action_state = [pan |-> <<0, 0>>, zoom |-> 0]
    /\ time = [delta |-> 0, elapsed |-> 0]
    /\ resize_events = <<>>
    /\ pending = {}
    /\ started = FALSE
    /\ panicked = FALSE


\* ----------------------------------------------------------------- hooks
\* Mutant: the newest player always becomes the active one.
on_player_add_latest(ap, e) ==
    [active_player |-> [ap EXCEPT !.player_id = e],
     log |-> IF ap.player_id = None THEN LogSet ELSE LogMoreThanOne]

\* Runs when the Player component is added to entity e: the new ActivePlayer
\* resource and the line logged.
on_player_add(ap, e) ==
    IF ap.player_id = None
    THEN [active_player |-> [ap EXCEPT !.player_id = e], log |-> LogSet]
    ELSE [active_player |-> ap, log |-> LogMoreThanOne]

\* Mutant: the reference is kept when a player is removed.
on_player_remove_keep(ap) ==
    [active_player |-> ap,
     log |-> IF ap.player_id # None THEN LogCleared ELSE LogNoActive]

\* Mutant: the test for an active player is inverted.
on_player_remove_inverted(ap) ==
    IF ap.player_id = None
    THEN [active_player |-> [ap EXCEPT !.player_id = None], log |-> LogCleared]
    ELSE [active_player |-> ap, log |-> LogNoActive]

\* Runs when the Player component is removed from an entity (the hook does
\* not read which one).
on_player_remove(ap) ==
    IF ap.player_id # None
    THEN [active_player |-> [ap EXCEPT !.player_id = None], log |-> LogCleared]
    ELSE [active_player |-> ap, log |-> LogNoActive]

\* --------------------------------------------------------------- startup
\* Startup system: spawns the screen camera, the sprite showing the world
\* render image, and the player with its world camera as a child.  Inserting
\* Player runs on_player_add.
spawn_player ==
    /\ ~started
    /\ ~panicked
    /\ next_id + 3 <= MaxEntities
    /\ LET screen == next_id
           sprite == next_id + 1
           p      == next_id + 2
           cam    == next_id + 3
           hook   == on_player_add(active_player, p)
       IN  /\ live' = live \cup {screen, sprite, p, cam}
           /\ next_id' = next_id + 4
           /\ screen_camera' = screen_camera \cup {screen}
           /\ player' = player \cup {p}
           /\ camera3d' = camera3d \cup {cam}
           /\ child_of' = [child_of EXCEPT ![cam] = p]
           /\ transform' = [transform EXCEPT ![p] = <<0, 0>>]
           /\ projection' = [projection EXCEPT ![screen] = ScreenCameraProjection,
                                               ![cam] = WorldCameraProjection]
           /\ active_player' = hook.active_player
           /\ log' = hook.log
    /\ started' = TRUE
    /\ UNCHANGED <<action_state, time, resize_events, pending, panicked>>

\* ------------------------------------------------- the rest of the world
\* What code outside the plugin, the window and the input devices do.  These
\* steps are taken between frames (pending = {}): the hooks read nothing a
\* frame changes, and each system step is judged on its own.
\* Code outside the plugin spawns another player rig of the same shape.
SpawnPlayerRig ==
    /\ started
    /\ ~panicked
    /\ pending = {}
    /\ next_id + 1 <= MaxEntities
    /\ LET p    == next_id
           cam  == next_id + 1
           hook == on_player_add(active_player, p)
       IN  /\ live' = live \cup {p, cam}
           /\ next_id' = next_id + 2
           /\ player' = player \cup {p}
           /\ camera3d' = camera3d \cup {cam}
           /\ child_of' = [child_of EXCEPT ![cam] = p]
           /\ transform' = [transform EXCEPT ![p] = <<0, 0>>]
           /\ projection' = [projection EXCEPT ![cam] = WorldCameraProjection]
           /\ active_player' = hook.active_player
           /\ log' = hook.log
    /\ UNCHANGED <<screen_camera, action_state, time, resize_events, pending,
                   started, panicked>>

\* Code outside the plugin inserts Player on a live entity that lacks it.
InsertPlayer(e) ==
    /\ ~panicked
    /\ pending = {}
    /\ e \in live \ (player \cup camera3d \cup screen_camera)
    /\ LET hook == on_player_add(active_player, e)
       IN  /\ active_player' = hook.active_player
           /\ log' = hook.log
    /\ player' = player \cup {e}
    /\ UNCHANGED <<live, next_id, camera3d, screen_camera, child_of, transform,
                   projection, action_state, time, resize_events, pending,
                   started, panicked>>

\* Code outside the plugin removes the Player component from an entity.
RemovePlayer(e) ==
    /\ ~panicked
    /\ pending = {}
    /\ e \in player
    /\ LET hook == on_player_remove(active_player)
       IN  /\ active_player' = hook.active_player
           /\ log' = hook.log
    /\ player' = player \ {e}
    /\ UNCHANGED <<live, next_id, camera3d, screen_camera, child_of, transform,
                   projection, action_state, time, resize_events, pending,
                   started, panicked>>

\* Code outside the plugin despawns a Player entity; its children go with it.
Despawn(e) ==
    /\ ~panicked
    /\ pending = {}
    /\ e \in player
    /\ LET hook == on_player_remove(active_player)
           gone == {e} \cup {c \in live : child_of[c] = e}
       IN  /\ active_player' = hook.active_player
           /\ log' = hook.log
           /\ live' = live \ gone
           /\ player' = player \ gone
           /\ camera3d' = camera3d \ gone
           /\ child_of' = [x \in Entities |-> IF x \in gone THEN None ELSE child_of[x]]
           /\ transform' = [x \in Entities |-> IF x \in gone THEN <<0, 0>> ELSE transform[x]]
           /\ projection' = [x \in Entities |->
                                IF x \in gone THEN NoProjection ELSE projection[x]]
    /\ UNCHANGED <<next_id, screen_camera, action_state, time, resize_events,
                   pending, started, panicked>>

\* The window is resized: a WindowResized event is sent.
\* The sizes tried: multiples of half the render size, and a window a quarter
\* of the render size.
WindowSizes ==
    {<<(world_render_width * i) \div 2, (world_render_height * j) \div 2>> :
        i \in 1..MaxWindowHalves, j \in 1..MaxWindowHalves}
    \cup {<<world_render_width \div 4, world_render_height \div 4>>}

WindowResized(size) ==
    /\ started
    /\ ~panicked
    /\ pending = {}
    /\ Len(resize_events) < MaxEvents
    /\ resize_events' = Append(resize_events, size)
    /\ UNCHANGED <<live, next_id, player, camera3d, screen_camera, child_of,
                   transform, projection, active_player, log, action_state, time,
                   pending, started, panicked>>

\* A new frame: Time advances, the input manager updates the action state,
\* and every Update system is due once.
PanAxes == {<<x, y>> : x \in {-1, 0, 1}, y \in {-1, 0, 1}}
ZoomValues == {-1, 0, 1}

Tick(dt, input) ==
    /\ started
    /\ ~panicked
    /\ pending = {}
    /\ time.elapsed + dt <= MaxElapsed
    /\ time' = [delta |-> dt, elapsed |-> time.elapsed + dt]
    /\ action_state' = input
    /\ pending' = UpdateSystems
    /\ UNCHANGED <<live, next_id, player, camera3d, screen_camera, child_of,
                   transform, projection, active_player, log, resize_events,
                   started, panicked>>

\* The inputs tried frame by frame: idle, right with the wheel forward,
\* forward-left with the wheel back.
FrameInputs ==
    {[pan |-> <<0, 0>>, zoom |-> 0],
     [pan |-> <<1, 0>>, zoom |-> 1],
     [pan |-> <<-1, 1>>, zoom |-> -1]}

NewFrame == \E dt \in 1..MaxDelta, input \in FrameInputs : Tick(dt, input)

\* A new frame in which no key is down and the wheel is still.
IdleFrame == \E dt \in 1..MaxDelta : Tick(dt, [pan |-> <<0, 0>>, zoom |-> 0])

\* A new frame in which the input is what it was.
HeldFrame == \E dt \in 1..MaxDelta : Tick(dt, action_state)

\* ------------------------------------------------------------ pan_player
\* Mutant: a fixed step per frame, delta_secs left out.
pan_distance_per_frame(as, t) == <<as.pan[1] * pan_speed, as.pan[2] * pan_speed>>

\* axis_pair(Pan) * pan_speed * delta_secs, in units of 1/TicksPerSec
pan_distance(as, t) == <<as.pan[1] * pan_speed * t.delta, as.pan[2] * pan_speed * t.delta>>

\* Mutant: every Player entity is moved, active or not.
pan_translation_unchecked(id, ap, tr, as, t) ==
    <<tr[id][1] + as.pan[2] * pan_speed * t.delta,
      tr[id][2] + as.pan[1] * pan_speed * t.delta>>

\* The translation pan_player leaves on Player entity id.
pan_translation(id, ap, tr, as, t) ==
    IF ap.player_id # None /\ id = ap.player_id
    THEN LET d == pan_distance(as, t)
         IN  <<tr[id][1] + d[2], tr[id][2] + d[1]>>
    ELSE tr[id]

pan_player ==
    /\ ~panicked
    /\ "pan_player" \in pending
    /\ pending' = pending \ {"pan_player"}
    /\ transform' = [e \in Entities |->
                        IF e \in player
                        THEN pan_translation(e, active_player, transform, action_state, time)
                        ELSE transform[e]]
    /\ UNCHANGED <<live, next_id, player, camera3d, screen_camera, child_of,
                   projection, active_player, log, action_state, time,
                   resize_events, started, panicked>>

\* ----------------------------------------------------------- zoom_camera
\* 1. - value(Zoom) * zoom_speed * delta_secs
zoom_factor(as, t) == <<TicksPerSec - as.zoom * zoom_speed * t.delta, TicksPerSec>>

\* Mutant: the search among the player's children is left out.
zoom_reaches_any(cam, ap) ==
    /\ ap.player_id # None
    /\ ap.player_id \in player
    /\ cam \in camera3d

\* Whether zoom_camera reaches camera cam: it is a Camera3d child of the
\* active player, which the player query matches.
zoom_reaches(cam, ap) ==
    /\ ap.player_id # None
    /\ ap.player_id \in player
    /\ cam \in camera3d
    /\ child_of[cam] = ap.player_id

zoom_projection(cam, ap, as, t) ==
    IF zoom_reaches(cam, ap) /\ projection[cam].kind = "Orthographic"
    THEN [projection[cam] EXCEPT !.scale = RatMul(@, zoom_factor(as, t))]
    ELSE projection[cam]

zoom_camera ==
    /\ ~panicked
    /\ "zoom_camera" \in pending
    /\ pending' = pending \ {"zoom_camera"}
    /\ projection' = [c \in Entities |->
                        zoom_projection(c, active_player, action_state, time)]
    /\ panicked' = \E c \in Entities :
                      /\ zoom_reaches(c, active_player)
                      /\ projection[c].kind # "Orthographic"
    /\ UNCHANGED <<live, next_id, player, camera3d, screen_camera, child_of,
                   transform, active_player, log, action_state, time,
                   resize_events, started>>

\* ------------------------------------------------------------ fit_window
\* The scale one WindowResized event leaves: 1. / h_scale.min(v_scale).round()
fit_scale(event) ==
    LET h_scale == <<event[1], world_render_width>>
        v_scale == <<event[2], world_render_height>>
    IN  RatNorm(1, RatRound(RatMin(h_scale, v_scale)))

RECURSIVE fit_events(_, _)

\* Mutant: only the first event read is used.
fit_events_first(scale, events) ==
    IF events = <<>> THEN scale ELSE fit_scale(Head(events))

\* The loop over the events read, in order.
fit_events(scale, events) ==
    IF events = <<>> THEN scale
    ELSE fit_events(fit_scale(Head(events)), Tail(events))

fit_window ==
    /\ ~panicked
    /\ "fit_window" \in pending
    /\ pending' = pending \ {"fit_window"}
    /\ IF Cardinality(screen_camera) = 1
       THEN LET s == CHOOSE x \in screen_camera : TRUE
            IN  IF projection[s].kind = "Orthographic"
                THEN /\ projection' = [projection EXCEPT
                            ![s].scale = fit_events(@, resize_events)]
                     /\ resize_events' = <<>>
                ELSE UNCHANGED <<projection, resize_events>>
       ELSE UNCHANGED <<projection, resize_events>>
    /\ UNCHANGED <<live, next_id, player, camera3d, screen_camera, child_of,
                   transform, active_player, log, action_state, time, started,
                   panicked>>

\* ------------------------------------------------------- specifications
\* Frames with player input, while Player components come and go.
Next ==
    \/ spawn_player
    \/ SpawnPlayerRig
    \/ \E e \in Entities : InsertPlayer(e)
    \/ \E e \in Entities : RemovePlayer(e)
    \/ \E e \in Entities : Despawn(e)
    \/ NewFrame
    \/ pan_player
    \/ zoom_camera
    \/ fit_window

Spec == Init /\ [][Next]_vars

\* Frames with the window being resized and no player input.
NextResize ==
    \/ spawn_player
    \/ \E size \in WindowSizes : WindowResized(size)
    \/ IdleFrame
    \/ pan_player
    \/ zoom_camera
    \/ fit_window

SpecResize == Init /\ [][NextResize]_vars

\* Frames with the player input held constant from the start.
InitHeld ==
    \E pan \in PanAxes, zoom \in ZoomValues :
        /\ action_state = [pan |-> pan, zoom |-> zoom]
        /\ live = {}
        /\ next_id = 1
        /\ player = {}
        /\ camera3d = {}
        /\ screen_camera = {}
        /\ child_of = [e \in Entities |-> None]
        /\ transform = [e \in Entities |-> <<0, 0>>]
        /\ projection = [e \in Entities |-> NoProjection]
        /\ active_player = [player_id |-> None]
        /\ log = LogNone
        /\ time = [delta |-> 0, elapsed |-> 0]
        /\ resize_events = <<>>
        /\ pending = {}
        /\ started = FALSE
        /\ panicked = FALSE

NextHeld ==
    \/ spawn_player
    \/ HeldFrame
    \/ pan_player
    \/ zoom_camera
    \/ fit_window

SpecHeld == InitHeld /\ [][NextHeld]_vars

\* ================================================================ claims
\* The step is a run of Update system sys.
Ran(sys) == sys \in pending /\ sys \notin pending'

\* Both pan_player and zoom_camera have run in the current frame.
PanAndZoomRan == started /\ time.delta > 0 /\ pending \subseteq {"fit_window"}

\* C1: when Player is added to an entity while ActivePlayer.player_id is
\* already Some(e), the resource stays as it is and the warning is logged;
\* when player_id is None it becomes Some(the added entity).
C1_AddKeepsFirstPlayer ==
    [][\A e \in Entities :
          (e \notin player /\ e \in player') =>
              IF active_player.player_id # None
              THEN active_player' = active_player /\ log' = LogMoreThanOne
              ELSE active_player'.player_id = e /\ log' = LogSet]_vars

\* A second player was added while the first was active: the first is kept.
C1_Witness ==
    /\ log = LogMoreThanOne
    /\ Cardinality(player) >= 2
    /\ active_player.player_id = 3

\* C2: in the state right after Player is removed from (or despawned with)
\* the entity ActivePlayer.player_id refers to, player_id is None.
C2_RemoveActiveClears ==
    [][\A e \in Entities :
          (e \in player /\ e \notin player' /\ active_player.player_id = e) =>
              active_player'.player_id = None]_vars

\* The last Player of several was removed while it was the active one.
C2_Witness ==
    /\ log = LogCleared
    /\ player = {}
    /\ active_player.player_id = None
    /\ next_id > 5

\* C3: ActivePlayer.player_id is None only if no entity carries Player.
C3_NoneMeansNoPlayer == active_player.player_id = None => player = {}

\* C9: if ActivePlayer.player_id is Some(e), then e is a live entity that
\* carries the Player component.
C9_NeverDangles ==
    active_player.player_id # None =>
        active_player.player_id \in live /\ active_player.player_id \in player

\* After a despawn, a later-added player is the active one.
C9_Witness ==
    /\ active_player.player_id = 5
    /\ 3 \notin live
    /\ log = LogSet

\* C7: while ActivePlayer.player_id is None, pan_player and zoom_camera change
\* no Transform and no Projection, and on_player_remove leaves it None and
\* logs the warning.
C7_NoActivePlayerNoEffect ==
    [][active_player.player_id = None =>
          /\ (Ran("pan_player") \/ Ran("zoom_camera")) =>
                UNCHANGED <<transform, projection>>
          /\ (player' # player /\ player' \subseteq player) =>
                active_player'.player_id = None /\ log' = LogNoActive]_vars

\* Both systems have run with input in a frame where Player entities exist
\* and none is active.
C7_Witness ==
    /\ PanAndZoomRan
    /\ active_player.player_id = None
    /\ Cardinality(player) >= 2
    /\ action_state.pan # <<0, 0>>
    /\ action_state.zoom # 0
    /\ log = LogNoActive

\* C8: with an active player, zoom_camera multiplies the orthographic scale
\* of exactly the Camera3d children of the active player by
\* (1 - zoom_value * zoom_speed * delta_secs) and leaves every other
\* projection as it is; pan_player changes the translation of no entity but
\* the active player.
C8_ZoomAndPanFrame ==
    [][active_player.player_id # None =>
          /\ Ran("zoom_camera") =>
                \A c \in Entities :
                    IF c \in camera3d /\ child_of[c] = active_player.player_id
                    THEN /\ projection'[c].kind = projection[c].kind
                         /\ projection'[c].scale[2] > 0
                         /\ projection'[c].scale[1] * projection[c].scale[2] * TicksPerSec
                              = projection[c].scale[1] * projection'[c].scale[2]
                                * (TicksPerSec - action_state.zoom * zoom_speed * time.delta)
                    ELSE projection'[c] = projection[c]
          /\ Ran("pan_player") =>
                \A e \in Entities \ {active_player.player_id} :
                    transform'[e] = transform[e]]_vars

\* Two rigs exist; the active one has been panned and zoomed, the other has
\* not moved and keeps its scale, and so does the screen camera.
C8_Witness ==
    /\ PanAndZoomRan
    /\ active_player.player_id = 3
    /\ 5 \in player
    /\ transform[3] # <<0, 0>> /\ transform[5] = <<0, 0>>
    /\ projection[4].scale # <<1, 1>> /\ projection[6].scale = <<1, 1>>
    /\ projection[1].scale = <<1, 1>>

\* C10: every Camera3d child of the active player has an Orthographic
\* projection, and zoom_camera has not panicked.
C10_ZoomNeverPanics ==
    /\ ~panicked
    /\ \A c \in camera3d :
          (active_player.player_id # None /\ child_of[c] = active_player.player_id) =>
              projection[c].kind = "Orthographic"

\* zoom_camera has run on the world camera of the active player.
C10_Witness ==
    /\ "zoom_camera" \notin pending
    /\ time.delta > 0
    /\ action_state.zoom = 1
    /\ \E c \in camera3d :
          /\ child_of[c] = active_player.player_id
          /\ projection[c].kind = "Orthographic"
          /\ projection[c].scale[1] < projection[c].scale[2]

\* The scale the ScreenCamera projection has after the step.
ScreenScaleAfter(s) == projection'[s].scale

\* C4: after fit_window reads a resize event of a window at least as large as
\* the render size, the scale is 1/k for a positive integer k with
\* k * world_render_width <= w and k * world_render_height <= h.
C4_FitsInsideWindow ==
    [][(Ran("fit_window") /\ resize_events # <<>>) =>
          LET w == resize_events[Len(resize_events)][1]
              h == resize_events[Len(resize_events)][2]
          IN  (w >= world_render_width /\ h >= world_render_height) =>
                  \A s \in screen_camera :
                      \E k \in 1..MaxWindowHalves :
                          /\ ScreenScaleAfter(s) = <<1, k>>
                          /\ k * world_render_width <= w
                          /\ k * world_render_height <= h]_vars

\* k is min(w / world_render_width, h / world_render_height) rounded to the
\* nearest integer, halves upwards: 2k - 1 <= 2 min < 2k + 1.
IsRoundedFit(k, w, h) ==
    /\ 2 * w >= (2 * k - 1) * world_render_width
    /\ 2 * h >= (2 * k - 1) * world_render_height
    /\ \/ 2 * w < (2 * k + 1) * world_render_width
       \/ 2 * h < (2 * k + 1) * world_render_height

\* C5: a run of fit_window that reads resize events leaves the screen
\* camera's scale at 1 / round(min(w / world_render_width,
\* h / world_render_height)) for the last event's (w, h); a run that reads
\* none leaves the projection as it is.
C5_FitWindowScale ==
    [][Ran("fit_window") =>
          \A s \in screen_camera :
              IF resize_events = <<>>
              THEN projection'[s] = projection[s]
              ELSE LET w == resize_events[Len(resize_events)][1]
                       h == resize_events[Len(resize_events)][2]
                   IN  \E k \in 0..MaxWindowHalves :
                          /\ IsRoundedFit(k, w, h)
                          /\ projection'[s].scale = <<1, k>>
                          /\ projection'[s].kind = "Orthographic"]_vars

\* fit_window has read the events of the frame and left the scale 1/2.
C5_Witness ==
    /\ started
    /\ time.delta > 0
    /\ "fit_window" \notin pending
    /\ resize_events = <<>>
    /\ \E s \in screen_camera : projection[s].scale = <<1, 2>>

\* C6: with the Pan input held at (x, y), the translation pan_player has
\* given the active player is forward * (y * pan_speed * T) +
\* right * (x * pan_speed * T), T being the sum of the delta times of the
\* frames in which pan_player has run, however T is split into frames.
C6_PanDependsOnTotalTime ==
    \A p \in player :
        p = active_player.player_id =>
            LET T == IF "pan_player" \in pending
                     THEN time.elapsed - time.delta
                     ELSE time.elapsed
            IN  transform[p] = <<action_state.pan[2] * pan_speed * T,
                                 action_state.pan[1] * pan_speed * T>>

\* Two frames of one tick each have been panned with both axes held.
C6_Witness ==
    /\ time.elapsed = 2
    /\ time.delta = 1
    /\ "pan_player" \notin pending
    /\ action_state.pan = <<1, -1>>
    /\ active_player.player_id = 3
    /\ transform[3] = <<-4, 4>>

====
